---- MODULE Spec2Model ----
(***************************************************************************)
(* Portfolio Dashboard backend (src/app.py): a Flask application with a    *)
(* hardcoded catalog SITES, a lookup by id, a fetch proxy built on         *)
(* requests.get(url, timeout=10), a health route and two error handlers,   *)
(* started with app.run(host='0.0.0.0', port=8080, debug=True).            *)
(*                                                                         *)
(* A request occupies a connection slot: it arrives, is dispatched to its  *)
(* view and answered.  The proxy view blocks in requests.get, which is     *)
(* modelled hop by hop: connect, read the response, follow a redirect.     *)
(***************************************************************************)
EXTENDS Integers, Sequences, FiniteSets, TLC

VARIABLES
    SITES,      \* the module-level catalog list
    pc,         \* per slot: "idle", "arrived", "connect", "read", "done"
    req,        \* per slot: the request being handled
    resp,       \* per slot: the response sent to the client
    calls,      \* per slot: calls of requests.get made by the handler
    sent,       \* per slot: outbound GETs attempted on the network
    trail,      \* per slot: what each outbound GET of the call ended in
    elapsed,    \* per slot: seconds spent inside requests.get
    result      \* per slot: what requests.get produced (response or exception)

vars == <<SITES, pc, req, resp, calls, sent, trail, elapsed, result>>

----------------------------------------------------------------------------
\* Bounds of the model

MaxReq == 2          \* connection slots (requests in flight at once)
MaxRedirects == 1    \* redirect limit of the HTTP client (requests: 30)
MaxElapsed == 22     \* cap on the seconds counted inside one requests.get
SlowWait == 6        \* a wait shorter than the timeout, in seconds
MaxExtra == 3        \* characters of the longest body beyond the content limit

\* Program constants
ContentLimit == 1000 \* response.text[:1000]
Timeout == 10        \* requests.get(target_url, timeout=10)

Slots == 1..MaxReq

Min(a, b) == IF a <= b THEN a ELSE b

----------------------------------------------------------------------------
\* Python values that the handlers test for truth

None == [t |-> "NoneType"]
Str(s) == [t |-> "str", v |-> s]

\* Python truth value of an Optional[str]: None and "" are false.
Falsy(x) == x.t = "NoneType" \/ (x.t = "str" /\ Len(x.v) = 0)

\* request.args.get(key): the parameter's value, None when it is absent.
ArgsGet(args, key) == IF key \in DOMAIN args THEN Str(args[key]) ELSE None

\* s[:n] on a Python sequence: the first min(len(s), n) items.
Slice(s, n) == SubSeq(s, 1, Min(Len(s), n))

----------------------------------------------------------------------------
\* The catalog

Catalog ==
    << [id |-> 1, url |-> "http://76.102.42.17:5100/",
        title |-> "Main Site (Port 5100)",
        description |-> "Primary portfolio website", category |-> "main"],
       [id |-> 2, url |-> "http://76.102.42.17:5000/video",
        title |-> "Video Demo",
        description |-> "Video demonstration and media showcase",
        category |-> "projects"],
       [id |-> 3,
        url |-> "https://instructions.online/?id=4610-25-0922-0650-rq200-servoarms_small-now",
        title |-> "Instructions Online",
        description |-> "RQ200 Servo Arms instructions and guide",
        category |-> "docs"],
       [id |-> 4, url |-> "http://quest.tny.cc/r200-ServoArmSm_Left-Test",
        title |-> "Quest Test - Servo Arm Left",
        description |-> "R200 ServoArm Left interactive test",
        category |-> "projects"] >>

----------------------------------------------------------------------------
\* Responses

\* jsonify(body) with a status code.
jsonify(code, body) == [code |-> code, ctype |-> "application/json", body |-> body]

\* An HTML page (a rendered template or a page written by Werkzeug).
HtmlPage(code, page) == [code |-> code, ctype |-> "text/html", body |-> page]

NoResp == [code |-> 0, ctype |-> "", body |-> ""]

\* The page Werkzeug writes for an HTTP error no handler is registered for.
DefaultErrorPage(code) == HtmlPage(code, "werkzeug error page")

\* The page of Werkzeug's debugger: the traceback of the exception.
DebuggerPage(e) == HtmlPage(500, <<"traceback", e.cls>>)

----------------------------------------------------------------------------
\* Exceptions: class and message; the base classes are those of requests.

Exc(cls, msg) == [cls |-> cls, msg |-> msg]

Parents(cls) ==
    CASE cls = "MissingSchema"    -> {"RequestException", "ValueError"}
      [] cls = "ConnectionError"  -> {"RequestException"}
      [] cls = "SSLError"         -> {"ConnectionError"}
      [] cls = "Timeout"          -> {"RequestException"}
      [] cls = "ConnectTimeout"   -> {"ConnectionError", "Timeout"}
      [] cls = "ReadTimeout"      -> {"Timeout"}
      [] cls = "TooManyRedirects" -> {"RequestException"}
      [] cls = "RequestException" -> {"IOError"}
      [] cls = "TemplateNotFound" -> {"IOError", "LookupError"}
      [] cls = "ValueError"       -> {"Exception"}
      [] cls = "IOError"          -> {"Exception"}
      [] cls = "LookupError"      -> {"Exception"}
      [] OTHER                    -> {}

RECURSIVE IsSubclass(_, _)
IsSubclass(cls, base) ==
    cls = base \/ \E p \in Parents(cls) : IsSubclass(p, base)

\* str(e)
StrOf(e) == e.msg

----------------------------------------------------------------------------
\* Requests and the URL map

\* A request: the method, the fixed part of the path, the characters of the
\* segment after "/api/sites/" (empty elsewhere), and the query parameters.
Request(method, path, seg, args) ==
    [method |-> method, path |-> path, seg |-> seg, args |-> args]

NoArgs == [k \in {} |-> <<>>]
UrlArg(url) == [k \in {"url"} |-> url]

NoReq == Request("", "", <<>>, NoArgs)

DigitChars == {"0", "1", "2", "3", "4", "5", "6", "7", "8", "9"}

DigitVal(c) ==
    CASE c = "0" -> 0 [] c = "1" -> 1 [] c = "2" -> 2 [] c = "3" -> 3
      [] c = "4" -> 4 [] c = "5" -> 5 [] c = "6" -> 6 [] c = "7" -> 7
      [] c = "8" -> 8 [] c = "9" -> 9

AllDigits(s) == Len(s) >= 1 /\ \A i \in 1..Len(s) : s[i] \in DigitChars

\* The <int:...> converter of the URL rule: it matches digits only.
IntConverterMatches(seg) == AllDigits(seg)

\* int(value) on a string of digits.
RECURSIVE IntOf(_)
IntOf(s) ==
    IF Len(s) = 0 THEN 0
    ELSE 10 * IntOf(SubSeq(s, 1, Len(s) - 1)) + DigitVal(s[Len(s)])

\* The URL rule whose path matches the request, "none" when no rule does.
MatchRule(rq) ==
    CASE rq.path = "/" /\ rq.seg = <<>>             -> "home"
      [] rq.path = "/api/sites" /\ rq.seg = <<>>    -> "get_sites"
      [] rq.path = "/api/sites/" /\ IntConverterMatches(rq.seg) -> "get_site"
      [] rq.path = "/api/proxy" /\ rq.seg = <<>>    -> "proxy_request"
      [] rq.path = "/api/health" /\ rq.seg = <<>>   -> "health_check"
      [] OTHER                                      -> "none"

\* @app.route(...) without methods= answers GET, HEAD and OPTIONS.
RouteMethods == {"GET", "HEAD", "OPTIONS"}

----------------------------------------------------------------------------
\* The views and error handlers

\* A listing ordered by title instead of insertion order.
get_sites_by_title(S) ==
    jsonify(200, [success |-> TRUE,
                  data |-> <<S[3], S[1], S[4], S[2]>>,
                  timestamp |-> "isoformat(now)"])

get_sites(S) ==
    jsonify(200, [success |-> TRUE, data |-> S, timestamp |-> "isoformat(now)"])

\* next((s for s in SITES if s['id'] == site_id), None): the first match.
FirstMatch(S, site_id) ==
    LET m == {i \in 1..Len(S) : S[i].id = site_id}
    IN  IF m = {} THEN 0 ELSE CHOOSE i \in m : \A j \in m : i <= j

get_site(S, site_id) ==
    LET i == FirstMatch(S, site_id)
    IN  IF i # 0
        THEN jsonify(200, [success |-> TRUE, data |-> S[i]])
        ELSE jsonify(404, [success |-> FALSE, error |-> "Site not found"])

health_check ==
    jsonify(200, [status |-> "healthy", timestamp |-> "isoformat(now)",
                  service |-> "Portfolio Dashboard API"])

home_page == HtmlPage(200, "index.html")

not_found == jsonify(404, [success |-> FALSE, error |-> "Endpoint not found"])

internal_error ==
    jsonify(500, [success |-> FALSE, error |-> "Internal server error"])

\* app.run(..., debug=True)
debug == TRUE

\* Flask.handle_exception: in debug mode the exception propagates to the
\* server's debugger; otherwise the handler registered for 500 answers.
handle_exception(e) == IF debug THEN DebuggerPage(e) ELSE internal_error

----------------------------------------------------------------------------
\* The proxy view

\* An upstream response as requests returns it.
Upstream(status, location, text) ==
    [status |-> status, location |-> location, text |-> text,
     headers |-> IF location THEN [Server |-> "up", Location |-> "/next"]
                 ELSE [Server |-> "up", Location |-> ""]]

RedirectStatuses == {301, 302, 303, 307, 308}

\* Response.is_redirect
is_redirect(up) == up.location /\ up.status \in RedirectStatuses

\* What one outbound GET, or the whole call, ended in.
Got(up) == [kind |-> "response", up |-> up, exc |-> Exc("", "")]
Raised(e) == [kind |-> "exception", up |-> Upstream(0, FALSE, <<>>), exc |-> e]
Pending == [kind |-> "none", up |-> Upstream(0, FALSE, <<>>), exc |-> Exc("", "")]

\* A check that tests only for the parameter's absence.
UrlAbsent(target_url) == target_url.t = "NoneType"

\* `if not target_url`
UrlMissing(target_url) == Falsy(target_url)

\* A URL is a sequence of tokens; requests refuses one without a scheme.
Schemes == {"http://", "https://"}
HasScheme(url) == Len(url) >= 1 /\ url[1] \in Schemes

\* Bytes of a code point in UTF-8 (code points below 65536).
Utf8Len(c) == IF c < 128 THEN 1 ELSE IF c < 2048 THEN 2 ELSE 3

\* A cut after 1000 bytes of the UTF-8 encoding instead of 1000 characters.
BytesOf(text, k) ==
    k + Cardinality({i \in 1..k : Utf8Len(text[i]) >= 2})
      + Cardinality({i \in 1..k : Utf8Len(text[i]) >= 3})

TruncateBytes(text) ==
    SubSeq(text, 1,
           CHOOSE k \in 0..Len(text) :
               /\ BytesOf(text, k) <= ContentLimit
               /\ k < Len(text) => BytesOf(text, k + 1) > ContentLimit)

\* response.text[:1000]
Truncate(text) == Slice(text, ContentLimit)

\* An answer that treats an upstream error status as a failure.
ProxyRaiseForStatus(up) ==
    IF up.status >= 400
    THEN jsonify(500, [success |-> FALSE, error |-> "HTTPError"])
    ELSE jsonify(200, [success |-> TRUE, status_code |-> up.status,
                       content |-> Slice(up.text, ContentLimit),
                       headers |-> up.headers])

\* The 200 answer built from the response requests.get returned.
ProxySuccess(up) ==
    jsonify(200, [success |-> TRUE, status_code |-> up.status,
                  content |-> Truncate(up.text), headers |-> up.headers])

\* An except clause that names requests.ConnectionError only.
CaughtConnectionError(e) == IsSubclass(e.cls, "ConnectionError")

\* except requests.RequestException as e
Caught(e) == IsSubclass(e.cls, "RequestException")

ProxyFailure(e) == jsonify(500, [success |-> FALSE, error |-> StrOf(e)])

\* The handler's answer once requests.get has returned or raised.
ProxyAnswer(o) ==
    IF o.kind = "response" THEN ProxySuccess(o.up)
    ELSE IF Caught(o.exc) THEN ProxyFailure(o.exc)
    ELSE handle_exception(o.exc)

\* A client that also repeats a GET that failed.
ResendOnFailure(o) ==
    o.kind = "exception" \/ (o.kind = "response" /\ o.up.location
                                /\ o.up.status \in {301, 302, 303, 307, 308})

\* Whether the client sends a further GET after a hop ended in o: only a
\* redirect response is followed; the adapter's max_retries is 0.
Resend(o) == o.kind = "response" /\ is_redirect(o.up)

Tag(o) ==
    IF o.kind = "exception" THEN "error"
    ELSE IF is_redirect(o.up) THEN "redirect" ELSE "final"

----------------------------------------------------------------------------
\* Inputs

\* Code points of one, two and three UTF-8 bytes: "A", "e acute", "euro".
CodePoints == <<65, 233, 8364>>

\* A decoded body of n characters; p varies the characters.
BodyText(n, p) == [i \in 1..n |-> CodePoints[((i * p) % 3) + 1]]

ShortTexts == {BodyText(0, 1), BodyText(2, 1)}

LongTexts ==
    {BodyText(n, p) :
        n \in {0, 1, ContentLimit - 1, ContentLimit, ContentLimit + 1,
               ContentLimit + MaxExtra},
        p \in {1, 2, 3}}

\* Upstream responses: success, redirects with and without a Location,
\* client and server errors.
Upstreams(texts) ==
    {Upstream(200, FALSE, t) : t \in texts}
    \cup {Upstream(302, TRUE, t) : t \in texts}
    \cup {Upstream(302, FALSE, t) : t \in texts}
    \cup {Upstream(404, FALSE, t) : t \in texts}
    \cup {Upstream(503, FALSE, t) : t \in texts}

GoodUrl == <<"http://", "upstream.example/">>
NoSchemeUrl == <<"upstream.example/">>
EmptyUrl == <<>>

\* The last segments tried on /api/sites/<seg>.
Segs == {<<"3">>, <<"0">>, <<"0", "3">>, <<"9">>, <<"-", "3">>, <<"x">>}

CatalogRequests ==
    {Request("GET", "/api/sites", <<>>, NoArgs)}
    \cup {Request("GET", "/api/sites/", seg, NoArgs) : seg \in Segs}

ProxyRequests ==
    {Request("GET", "/api/proxy", <<>>, NoArgs)}
    \cup {Request("GET", "/api/proxy", <<>>, UrlArg(u)) :
            u \in {EmptyUrl, GoodUrl, NoSchemeUrl}}

OtherRequests ==
    {Request("GET", "/", <<>>, NoArgs),
     Request("GET", "/api/health", <<>>, NoArgs),
     Request("GET", "/nope", <<>>, NoArgs),
     Request("POST", "/api/sites", <<>>, NoArgs)}

Requests == CatalogRequests \cup ProxyRequests \cup OtherRequests

----------------------------------------------------------------------------
\* The state machine

Init ==
    /\ SITES = Catalog
    /\ pc = [r \in Slots |-> "idle"]
    /\ req = [r \in Slots |-> NoReq]
    /\ resp = [r \in Slots |-> NoResp]
    /\ calls = [r \in Slots |-> 0]
    /\ sent = [r \in Slots |-> 0]
    /\ trail = [r \in Slots |-> <<>>]
    /\ elapsed = [r \in Slots |-> 0]
    /\ result = [r \in Slots |-> Pending]

\* A server that handles one request at a time.
single_threaded == FALSE

\* app.run(...) leaves threaded at its default: one thread per request.
threaded == TRUE

Blocked(r) == pc[r] \in {"connect", "read"}

\* Whether the server can start handling the request of slot r.
CanServe(r) == threaded \/ \A q \in Slots \ {r} : ~Blocked(q)

\* A client sends a request.
Arrive(r, reqs) ==
    /\ pc[r] = "idle"
    /\ \E rq \in reqs : req' = [req EXCEPT ![r] = rq]
    /\ pc' = [pc EXCEPT ![r] = "arrived"]
    /\ UNCHANGED <<SITES, resp, calls, sent, trail, elapsed, result>>

\* The response goes out.
Answer(r, rs) ==
    /\ resp' = [resp EXCEPT ![r] = rs]
    /\ pc' = [pc EXCEPT ![r] = "done"]

\* requests.get has returned or raised o after dt more seconds.
Return(r, o, dt) ==
    /\ result' = [result EXCEPT ![r] = o]
    /\ elapsed' = [elapsed EXCEPT ![r] = @ + dt]
    /\ Answer(r, ProxyAnswer(o))

\* The server matches the request against the URL map and runs the view up
\* to its first blocking call.
Dispatch(r) ==
    /\ pc[r] = "arrived"
    /\ CanServe(r)
    /\ LET rq == req[r]
           ep == MatchRule(rq)
           target_url == ArgsGet(rq.args, "url")
       IN  IF ep = "none" THEN
               /\ Answer(r, not_found)
               /\ UNCHANGED <<calls, result, elapsed>>
           ELSE IF rq.method \notin RouteMethods THEN
               /\ Answer(r, DefaultErrorPage(405))
               /\ UNCHANGED <<calls, result, elapsed>>
           ELSE IF ep = "home" THEN
               /\ \/ Answer(r, home_page)
                  \/ Answer(r, handle_exception(
                                  Exc("TemplateNotFound", "index.html")))
               /\ UNCHANGED <<calls, result, elapsed>>
           ELSE IF ep = "get_sites" THEN
               /\ Answer(r, get_sites(SITES))
               /\ UNCHANGED <<calls, result, elapsed>>
           ELSE IF ep = "get_site" THEN
               /\ Answer(r, get_site(SITES, IntOf(rq.seg)))
               /\ UNCHANGED <<calls, result, elapsed>>
           ELSE IF ep = "health_check" THEN
               /\ Answer(r, health_check)
               /\ UNCHANGED <<calls, result, elapsed>>
           ELSE IF UrlMissing(target_url) THEN
               /\ Answer(r, jsonify(400, [success |-> FALSE,
                                          error |-> "URL parameter is required"]))
               /\ UNCHANGED <<calls, result, elapsed>>
           ELSE
               /\ calls' = [calls EXCEPT ![r] = @ + 1]
               /\ IF HasScheme(target_url.v)
                  THEN /\ pc' = [pc EXCEPT ![r] = "connect"]
                       /\ UNCHANGED <<resp, result, elapsed>>
                  ELSE Return(r, Raised(Exc("MissingSchema",
                                            "No scheme supplied")), 0)
    /\ UNCHANGED <<SITES, req, sent, trail>>

\* One outbound GET has ended in o after dt more seconds: the client follows
\* a redirect with a further GET, up to its limit, and otherwise returns o
\* to the handler.
HopDone(r, o, dt) ==
    /\ trail' = [trail EXCEPT ![r] = Append(@, Tag(o))]
    /\ IF Resend(o)
       THEN IF Len(trail[r]) < MaxRedirects
            THEN /\ pc' = [pc EXCEPT ![r] = "connect"]
                 /\ elapsed' = [elapsed EXCEPT ![r] = @ + dt]
                 /\ UNCHANGED <<resp, result>>
            ELSE Return(r, Raised(Exc("TooManyRedirects",
                                      "Exceeded redirects")), dt)
       ELSE Return(r, o, dt)

\* One outbound GET starts: the connection is made within the timeout, or
\* fails (refused, DNS, TLS), or the connect wait reaches the timeout.
Connect(r, waits) ==
    /\ pc[r] = "connect"
    /\ sent' = [sent EXCEPT ![r] = @ + 1]
    /\ \/ \E w \in waits :
            /\ w < Timeout
            /\ elapsed[r] + w <= MaxElapsed
            /\ elapsed' = [elapsed EXCEPT ![r] = @ + w]
            /\ pc' = [pc EXCEPT ![r] = "read"]
            /\ UNCHANGED <<resp, result, trail>>
       \/ \E e \in {Exc("ConnectionError", "Connection refused"),
                    Exc("ConnectionError", "Name or service not known"),
                    Exc("SSLError", "certificate verify failed")} :
            HopDone(r, Raised(e), 0)
       \/ HopDone(r, Raised(Exc("ConnectTimeout", "connect timed out")), Timeout)
    /\ UNCHANGED <<SITES, req, calls>>

\* The client waits for bytes of the response: some arrive within the
\* timeout and more are awaited, or the response is complete, or the wait
\* reaches the timeout.
Read(r, waits, texts) ==
    /\ pc[r] = "read"
    /\ \/ \E w \in waits :
            /\ 0 < w /\ w < Timeout
            /\ elapsed[r] + w <= MaxElapsed
            /\ elapsed' = [elapsed EXCEPT ![r] = @ + w]
            /\ UNCHANGED <<pc, resp, result, trail>>
       \/ \E up \in Upstreams(texts) : HopDone(r, Got(up), 0)
       \/ HopDone(r, Raised(Exc("ReadTimeout", "read timed out")), Timeout)
    /\ UNCHANGED <<SITES, req, calls, sent>>

\* The exchange is over; the slot takes the next request.
Reset(r) ==
    /\ pc[r] = "done"
    /\ pc' = [pc EXCEPT ![r] = "idle"]
    /\ req' = [req EXCEPT ![r] = NoReq]
    /\ resp' = [resp EXCEPT ![r] = NoResp]
    /\ calls' = [calls EXCEPT ![r] = 0]
    /\ sent' = [sent EXCEPT ![r] = 0]
    /\ trail' = [trail EXCEPT ![r] = <<>>]
    /\ elapsed' = [elapsed EXCEPT ![r] = 0]
    /\ result' = [result EXCEPT ![r] = Pending]
    /\ UNCHANGED SITES

\* The server: any requests, upstream answers at once with short bodies.
ArriveAny == \E r \in Slots : Arrive(r, Requests)
DispatchAny == \E r \in Slots : Dispatch(r)
ConnectFast == \E r \in Slots : Connect(r, {0})
ReadFast == \E r \in Slots : Read(r, {0}, ShortTexts)
ResetAny == \E r \in Slots : Reset(r)

Next == ArriveAny \/ DispatchAny \/ ConnectFast \/ ReadFast \/ ResetAny

Spec == Init /\ [][Next]_vars

\* One connection at a time, proxy requests only, upstream bodies around
\* the content limit.
ArriveProxy == Arrive(1, ProxyRequests)
DispatchOne == Dispatch(1)
ConnectOne == Connect(1, {0})
ReadLong == Read(1, {0}, LongTexts)
ResetOne == Reset(1)

NextText == ArriveProxy \/ DispatchOne \/ ConnectOne \/ ReadLong \/ ResetOne

SpecText == Init /\ [][NextText]_vars

\* One connection at a time, proxy requests only, an upstream that answers
\* at once or after a wait shorter than the timeout.
ConnectSlow == Connect(1, {0, SlowWait})
ReadSlow == Read(1, {0, SlowWait}, ShortTexts)

NextTime == ArriveProxy \/ DispatchOne \/ ConnectSlow \/ ReadSlow \/ ResetOne

SpecTime == Init /\ [][NextTime]_vars

----------------------------------------------------------------------------
\* Properties

Done(r) == pc[r] = "done"

IsJson(rs) == rs.ctype = "application/json"

IsProxyCall(rq) == rq.method = "GET" /\ rq.path = "/api/proxy"

\* The url parameter is present and not the empty string.
UrlGiven(rq) == "url" \in DOMAIN rq.args /\ rq.args["url"] # <<>>

\* The text of an integer: digits, with an optional minus sign.
IsIntegerText(seg) ==
    \/ AllDigits(seg)
    \/ Len(seg) >= 2 /\ seg[1] = "-" /\ AllDigits(Tail(seg))

IntegerOf(seg) == IF seg[1] = "-" THEN 0 - IntOf(Tail(seg)) ELSE IntOf(seg)

\* C1: for every integer id, GET /api/sites/{id} answers 200 with
\* {success: true, data: R}, R the catalog record with that id, when there is
\* one, and 404 with {success: false, error: "Site not found"} when the id
\* is absent from the catalog.
C1_LookupEveryIntegerId ==
    \A r \in Slots :
        (Done(r) /\ req[r].method = "GET" /\ req[r].path = "/api/sites/"
            /\ IsIntegerText(req[r].seg))
        => LET id == IntegerOf(req[r].seg)
               hits == {i \in 1..Len(Catalog) : Catalog[i].id = id}
           IN  /\ IsJson(resp[r])
               /\ IF hits # {}
                  THEN /\ resp[r].code = 200
                       /\ resp[r].body.success = TRUE
                       /\ \E i \in hits : resp[r].body.data = Catalog[i]
                  ELSE /\ resp[r].code = 404
                       /\ resp[r].body.success = FALSE
                       /\ resp[r].body.error = "Site not found"

\* C2: a proxy request whose url parameter is missing or empty never makes an
\* outbound call and is answered 400 with
\* {success: false, error: "URL parameter is required"}.
C2_MissingUrlRejected ==
    \A r \in Slots :
        (pc[r] # "idle" /\ IsProxyCall(req[r]) /\ ~UrlGiven(req[r]))
        => /\ pc[r] \in {"arrived", "done"}
           /\ calls[r] = 0
           /\ sent[r] = 0
           /\ Done(r) =>
                /\ resp[r].code = 400
                /\ IsJson(resp[r])
                /\ resp[r].body = [success |-> FALSE,
                                   error |-> "URL parameter is required"]

C2_Witness ==
    \E r, q \in Slots :
        /\ Done(r) /\ IsProxyCall(req[r]) /\ "url" \notin DOMAIN req[r].args
        /\ resp[r].code = 400
        /\ Done(q) /\ IsProxyCall(req[q]) /\ "url" \in DOMAIN req[q].args
        /\ req[q].args["url"] = <<>>
        /\ resp[q].code = 400

\* C3: the content of a successful proxy response is the prefix of the
\* decoded upstream body of length min(len(body), 1000), in characters.
C3_ContentIsPrefix ==
    \A r \in Slots :
        (Done(r) /\ result[r].kind = "response")
        => LET c == resp[r].body.content
               t == result[r].up.text
           IN  /\ Len(c) = Min(Len(t), ContentLimit)
               /\ Len(c) <= ContentLimit
               /\ \A i \in 1..Len(c) : c[i] = t[i]

C3_Witness ==
    \E r \in Slots :
        /\ Done(r) /\ result[r].kind = "response"
        /\ Len(result[r].up.text) > ContentLimit
        /\ \E i \in 1..ContentLimit : Utf8Len(result[r].up.text[i]) > 1
        /\ Len(resp[r].body.content) = ContentLimit

\* C4: whenever the outbound GET returns an HTTP response, whatever its
\* status, the proxy answers 200 with success: true and status_code equal to
\* the upstream status.
C4_UpstreamStatusPassedOn ==
    \A r \in Slots :
        (Done(r) /\ result[r].kind = "response")
        => /\ resp[r].code = 200
           /\ IsJson(resp[r])
           /\ resp[r].body.success = TRUE
           /\ resp[r].body.status_code = result[r].up.status

C4_Witness ==
    \E r, q \in Slots :
        /\ Done(r) /\ result[r].kind = "response" /\ result[r].up.status = 503
        /\ resp[r].code = 200 /\ resp[r].body.status_code = 503
        /\ Done(q) /\ result[q].kind = "response" /\ result[q].up.status = 404
        /\ resp[q].code = 200 /\ resp[q].body.status_code = 404

\* C5: every failure of the outbound fetch (connection error, timeout, DNS
\* failure, malformed URL, TLS error) is answered 500 with
\* {success: false, error: <the error's string description>}.
C5_FetchFailureIs500 ==
    \A r \in Slots :
        (Done(r) /\ result[r].kind = "exception")
        => /\ resp[r].code = 500
           /\ IsJson(resp[r])
           /\ resp[r].body = [success |-> FALSE, error |-> result[r].exc.msg]

C5_Witness ==
    \E r, q \in Slots :
        /\ Done(r) /\ result[r].kind = "exception"
        /\ result[r].exc.cls = "ReadTimeout"
        /\ resp[r].code = 500 /\ resp[r].body.error = "read timed out"
        /\ Done(q) /\ result[q].kind = "exception"
        /\ result[q].exc.cls = "MissingSchema"
        /\ resp[q].code = 500

\* C6 as stated: each proxy request with a non-empty url makes exactly one
\* outbound GET attempt, with no second outbound request of any kind in the
\* same call.
C6_ExactlyOneOutboundGet ==
    \A r \in Slots :
        (Done(r) /\ IsProxyCall(req[r]) /\ UrlGiven(req[r]))
        => calls[r] = 1 /\ sent[r] <= 1

\* C6 as amended: each proxy request with a non-empty url calls the HTTP
\* client exactly once; the client sends one GET to the given url (none when
\* the url has no scheme) and one more GET for each redirect it follows, up
\* to its redirect limit; a GET that fails is never repeated, and every call
\* with a well-formed url makes its own outbound GET.
C6_OneCallRedirectsOnly ==
    \A r \in Slots :
        (pc[r] \in {"connect", "read", "done"} /\ IsProxyCall(req[r])
            /\ UrlGiven(req[r]))
        => /\ calls[r] = 1
           /\ sent[r] = Len(trail[r]) + (IF pc[r] = "read" THEN 1 ELSE 0)
           /\ sent[r] <= MaxRedirects + 1
           /\ \A i \in 1..Len(trail[r]) :
                (i < Len(trail[r]) \/ ~Done(r)) => trail[r][i] = "redirect"
           /\ Done(r) =>
                IF HasScheme(req[r].args["url"]) THEN sent[r] >= 1
                ELSE sent[r] = 0

C6_Witness ==
    \E r, q \in Slots :
        /\ r # q
        /\ Done(r) /\ Done(q)
        /\ IsProxyCall(req[r]) /\ UrlGiven(req[r])
        /\ req[q] = req[r]
        /\ sent[r] = 2 /\ trail[r][1] = "redirect"
        /\ sent[q] = 1 /\ result[q].kind = "exception"

\* C7: GET /api/sites always answers 200 with success: true and data equal
\* to the configured catalog in its original order; no request changes the
\* catalog, and its ids stay pairwise distinct.
C7_CatalogNeverChanges ==
    /\ SITES = Catalog
    /\ \A i, j \in 1..Len(SITES) : SITES[i].id = SITES[j].id => i = j
    /\ \A r \in Slots :
        (Done(r) /\ req[r].method = "GET" /\ req[r].path = "/api/sites")
        => /\ resp[r].code = 200
           /\ IsJson(resp[r])
           /\ resp[r].body.success = TRUE
           /\ resp[r].body.data = Catalog

C7_Witness ==
    \E r, q \in Slots :
        /\ Done(r) /\ req[r].method = "GET" /\ req[r].path = "/api/sites"
        /\ resp[r].body.data = Catalog
        /\ Done(q) /\ IsProxyCall(req[q]) /\ result[q].kind = "response"

\* C8: every request that ends in an error gets a JSON response of the shape
\* {success: false, error: <message>}, and every request that matches no
\* route gets 404 with {success: false, error: "Endpoint not found"}.
C8_UniformErrorEnvelope ==
    \A r \in Slots :
        Done(r) =>
            /\ resp[r].code >= 400 =>
                /\ IsJson(resp[r])
                /\ DOMAIN resp[r].body = {"success", "error"}
                /\ resp[r].body.success = FALSE
            /\ (MatchRule(req[r]) = "none"
                    \/ req[r].method \notin RouteMethods) =>
                /\ resp[r].code = 404
                /\ IsJson(resp[r])
                /\ resp[r].body = [success |-> FALSE,
                                   error |-> "Endpoint not found"]

\* C9: while one proxy request is blocked in its outbound fetch, any other
\* request that has arrived can be handled at once, and any other fetch can
\* go on: nothing waits for the pending fetch to finish.
C9_NotSerialized ==
    \A r, q \in Slots :
        (r # q /\ Blocked(r))
        => /\ pc[q] = "arrived" => ENABLED Dispatch(q)
           /\ pc[q] = "connect" => ENABLED Connect(q, {0})
           /\ pc[q] = "read" => ENABLED Read(q, {0}, ShortTexts)

C9_Witness ==
    \E r, q \in Slots :
        /\ r # q
        /\ pc[r] = "read"
        /\ Done(q) /\ req[q].path = "/api/health" /\ resp[q].code = 200

\* C10: every proxy request with a non-empty url completes within the
\* 10-second timeout counted over the whole outbound call.
C10_CompletesWithinTimeout ==
    \A r \in Slots :
        (Done(r) /\ IsProxyCall(req[r]) /\ UrlGiven(req[r]))
        => elapsed[r] <= Timeout

====
